---- MODULE Spec2Model ----
(***************************************************************************)
(* A model of src/src/graph.js: the GRAPH relation engine.                 *)
(*                                                                         *)
(* Nodes are caller-owned records.  Each holds, besides its data fields,   *)
(* one array of node references per relation key.  A handle returned by    *)
(* Graph(nodes, parentsKey, childrenKey) closes over its `nodes` array and *)
(* over the two module-level variables lastParentsKey / lastChildrenKey.   *)
(*                                                                         *)
(* Arrays have identity in JavaScript.  add() replaces node[relation] by a *)
(* fresh array (concat), remove() edits node[relation] in place (splice).  *)
(* An array is therefore modelled by a reference: either a value of its    *)
(* own ("val") or the array currently stored in a node's field ("loc").    *)
(***************************************************************************)
EXTENDS Integers, Sequences, FiniteSets, TLC

VARIABLES
    node,             \* node[n][key]: the relation array of node n under key
    lastParentsKey,   \* graph.js:10
    lastChildrenKey,  \* graph.js:11
    handles,          \* the handles constructed so far, by slot
    call,             \* the most recent call: operation, arguments, result
    supplied,         \* the explicit key names passed to Graph(), in order
    roundTrip,        \* set when removeChildren(X) directly undoes addChildren(X)
    ops               \* number of calls made

vars == <<node, lastParentsKey, lastChildrenKey, handles, call, supplied, roundTrip, ops>>

----------------------------------------------------------------------------
(* Bounds of the model. *)

\* The number of calls a run makes.
MaxOps == 3

\* The largest finite `generations` argument a query is given.
MaxGen == 2

\* The number of relations of a graph a query run starts from.
MaxEdges == 3

----------------------------------------------------------------------------
(* Values. *)

Nodes == {"A", "B", "C"}

\* JavaScript's undefined, as an argument that was omitted.
Undefined == "undefined"

\* The relation keys the nodes carry: the default names and the names a
\* caller passes to Graph().  Every node has an array under each.
KeyNames == {"parents", "children", "up", "down"}

\* A node that also has a property whose name is "undefined"; it takes part
\* only where filters are matched against it.
AllNodes == Nodes \cup {"U"}

\* The data fields of the node records (never changed by the engine).
NodeData ==
    [n \in AllNodes |->
        CASE n = "A" -> [id |-> 1]
          [] n = "B" -> [id |-> 2]
          [] n = "U" -> [id |-> 1, undefined |-> 1]
          [] OTHER   -> [id |-> 2, kind |-> 7]]

NoHandle ==
    [kind |-> "none", val |-> <<>>, node |-> "A", key |-> "",
     parentsKey |-> "", childrenKey |-> "", named |-> FALSE, born |-> 0]

NoCall ==
    [op |-> "init", slot |-> 0, nodes |-> <<>>, arg |-> <<>>,
     filter |-> [t |-> "undefined", kv |-> <<>>, fn |-> ""],
     generations |-> [t |-> "undefined", v |-> 0],
     res |-> [div |-> FALSE, out |-> <<>>, err |-> ""]]

----------------------------------------------------------------------------
(* Arrays. *)

ValRef(s) == [kind |-> "val", val |-> s, node |-> "A", key |-> ""]
LocRef(n, k) == [kind |-> "loc", val |-> <<>>, node |-> n, key |-> k]

\* The content of the array a reference denotes, in node state f.
Deref(f, r) == IF r.kind = "loc" THEN f[r.node][r.key] ELSE r.val

\* Array.prototype.indexOf, 0-based, -1 when absent.
IndexOf(s, x) ==
    IF \E i \in 1..Len(s) : s[i] = x
    THEN (CHOOSE i \in 1..Len(s) : s[i] = x /\ \A j \in 1..(i - 1) : s[j] # x) - 1
    ELSE -1

\* Array.prototype.splice(start, 1): a negative start counts from the end.
SpliceOne(s, start) ==
    LET from == IF start < 0
                THEN (IF Len(s) + start < 0 THEN 0 ELSE Len(s) + start)
                ELSE (IF start > Len(s) THEN Len(s) ELSE start)
    IN  IF from >= Len(s) THEN s
        ELSE SubSeq(s, 1, from) \o SubSeq(s, from + 2, Len(s))

----------------------------------------------------------------------------
(* graph.js:30-35 *)

\* A relation field the node does not have reads undefined.
NoField == <<Undefined>>

Lacks(f, n, relation) == f[n][relation] = NoField

\* The index of the first node of `nodes` that lacks the field, 0 if none.
FirstLacking(f, nodes, relation) ==
    IF \E i \in 1..Len(nodes) : Lacks(f, nodes[i], relation)
    THEN CHOOSE i \in 1..Len(nodes) :
             /\ Lacks(f, nodes[i], relation)
             /\ \A j \in 1..(i - 1) : ~Lacks(f, nodes[j], relation)
    ELSE 0

\* undefined.concat(...) throws a TypeError
Throws(f, nodes, relation) == FirstLacking(f, nodes, relation) # 0

\* The nodes the forEach of add() gets through.
Processed(f, nodes, relation) ==
    IF Throws(f, nodes, relation)
    THEN SubSeq(nodes, 1, FirstLacking(f, nodes, relation) - 1)
    ELSE nodes

\* A variant that puts the new entries in front of the old ones.
addOnePrepend(f, n, relation, relatedNodes) ==
    [f EXCEPT ![n][relation] = relatedNodes \o @]

\* node[relation] = node[relation].concat(relatedNodes), for one node
addOne(f, n, relation, relatedNodes) ==
    [f EXCEPT ![n][relation] = @ \o relatedNodes]

\* nodes.forEach(...): both arrays are the objects passed in; concat never
\* edits an array in place, so their contents are those at the call.  At a
\* node without the field the TypeError ends the loop, and add(), with the
\* assignments made so far in place.
RECURSIVE add(_, _, _, _)
add(f, nodes, relation, relatedNodes) ==
    IF nodes = <<>> \/ Lacks(f, Head(nodes), relation) THEN f
    ELSE add(addOne(f, Head(nodes), relation, relatedNodes),
             Tail(nodes), relation, relatedNodes)

----------------------------------------------------------------------------
(* graph.js:14-26 *)

\* A property read obj[name] of a record: <<v>> when the record has the
\* field, <<>> (undefined) when it has not.
Prop(rec, name) == IF name \in DOMAIN rec THEN <<rec[name]>> ELSE <<>>

\* A structural filter is the sequence of its <<key, value>> pairs, in
\* Object.keys order.  self[name]:
PropOfPairs(pairs, name) ==
    IF \E i \in 1..Len(pairs) : pairs[i][1] = name
    THEN <<pairs[CHOOSE i \in 1..Len(pairs) : pairs[i][1] = name][2]>>
    ELSE <<>>

\* keys[key], 0-based: past the end it is undefined, which as a property
\* name reads the property called "undefined".
KeyAt(pairs, key) == IF key < Len(pairs) THEN pairs[key + 1][1] ELSE Undefined

\* The inner function check(), entered with the counter at `key`.
RECURSIVE check(_, _, _)
check(self, obj, key) ==
    IF PropOfPairs(self, KeyAt(self, key)) = Prop(obj, KeyAt(self, key))
    THEN (IF key + 1 <= Len(self) THEN check(self, obj, key + 1) ELSE TRUE)
    ELSE FALSE

resembles(self, obj) == check(self, obj, 0)

----------------------------------------------------------------------------
(* graph.js:40-57 *)

\* A filter argument: omitted, a structural filter, or a predicate.  The
\* predicates the callers pass here are pure functions of the node's data.
NoFilter == [t |-> "undefined", kv |-> <<>>, fn |-> ""]
ObjFilter(pairs) == [t |-> "obj", kv |-> pairs, fn |-> ""]
FnFilter(name) == [t |-> "fn", kv |-> <<>>, fn |-> name]

\* function (n) { return n.id > 1; }
CallPredicate(name, n) ==
    CASE name = "idGt1" -> NodeData[n].id > 1
      [] OTHER -> FALSE

\* line 43-44: filter = filter || {}; a function is used as it is, anything
\* else is matched structurally.
filterFn(filter, child) ==
    IF filter.t = "fn" THEN CallPredicate(filter.fn, child)
    ELSE resembles(IF filter.t = "undefined" THEN <<>> ELSE filter.kv, NodeData[child])

\* node[relation].filter(filterFn)
RECURSIVE FilterSeq(_, _)
FilterSeq(s, filter) ==
    IF s = <<>> THEN <<>>
    ELSE (IF filterFn(filter, Head(s)) THEN <<Head(s)>> ELSE <<>>)
         \o FilterSeq(Tail(s), filter)

\* A generations argument: undefined (omitted), null, or a number.
GenUndefined == [t |-> "undefined", v |-> 0]
GenNull == [t |-> "null", v |-> 0]
GenNum(k) == [t |-> "num", v |-> k]

\* A variant that compares with 1 instead of 0.
RecursesAboveOne(generations) ==
    (generations.t = "num" /\ generations.v > 1) \/ generations.t = "undefined"

\* line 48: generations > 0 || generations === undefined
Recurses(generations) ==
    (generations.t = "num" /\ generations.v > 0) \/ generations.t = "undefined"

\* A variant written (generations - 1) || undefined: a budget that reaches
\* 0 becomes undefined.
NextGenerationsOrUndefined(generations) ==
    IF generations.t = "num" /\ generations.v # 0
    THEN (IF generations.v = 1 THEN GenUndefined ELSE GenNum(generations.v - 1))
    ELSE generations

\* line 52: generations && generations - 1
NextGenerations(generations) ==
    IF generations.t = "num" /\ generations.v # 0
    THEN GenNum(generations.v - 1)
    ELSE generations

\* The result of a query: the list returned, or div when the recursion never
\* returns.  With generations undefined a call at depth d on a non-empty
\* frontier has followed a path of d hops; once d reaches the number of
\* nodes that path repeats a node, and the recursion follows that cycle for
\* ever (in practice until the call stack is exhausted).
Returned(s) == [div |-> FALSE, out |-> s, err |-> ""]
Diverged == [div |-> TRUE, out |-> <<>>, err |-> ""]

RECURSIVE getRec(_, _, _, _, _, _)
RECURSIVE getEach(_, _, _, _, _, _, _)

\* lines 50-53: the forEach body, run for nodes[1], nodes[2], ... with the
\* value `filtered` had after the previous node.
getEach(f, nodes, relation, filter, generations, depth, filtered) ==
    IF nodes = <<>> THEN Returned(filtered)
    ELSE LET direct == FilterSeq(f[Head(nodes)][relation], filter)
             deeper == IF Recurses(generations)
                       THEN getRec(f, f[Head(nodes)][relation], relation, filter,
                                   NextGenerations(generations), depth + 1)
                       ELSE Returned(<<>>)
         IN  IF deeper.div THEN Diverged
             ELSE getEach(f, Tail(nodes), relation, filter, generations, depth,
                          direct \o deeper.out)

\* lines 46-56: the inner function get(nodes, generations)
getRec(f, nodes, relation, filter, generations, depth) ==
    IF generations.t = "undefined" /\ nodes # <<>> /\ depth >= Cardinality(Nodes)
    THEN Diverged
    ELSE getEach(f, nodes, relation, filter, generations, depth, <<>>)

get(f, nodes, relation, filter, generations) ==
    getRec(f, nodes, relation, filter, generations, 0)

----------------------------------------------------------------------------
(* graph.js:61-68 *)

\* A variant that calls splice without its count, removing the rest of the
\* array.
removeOneToEnd(f, n, relation, relatedNode) ==
    [f EXCEPT ![n][relation] =
        LET start == IndexOf(@, relatedNode)
        IN  IF start < 0 THEN SubSeq(@, 1, Len(@) - 1) ELSE SubSeq(@, 1, start)]

\* node[relation].splice(node[relation].indexOf(relatedNode), 1)
removeOne(f, n, relation, relatedNode) ==
    [f EXCEPT ![n][relation] = SpliceOne(@, IndexOf(@, relatedNode))]

\* relatedNodes.forEach(...): indices 0..len-1 of the array as it was when
\* the loop began; an index the array no longer has is skipped.
RECURSIVE removeInner(_, _, _, _, _, _)
removeInner(f, n, relation, relatedRef, j, len) ==
    IF j > len THEN f
    ELSE IF j > Len(Deref(f, relatedRef))
         THEN removeInner(f, n, relation, relatedRef, j + 1, len)
         ELSE removeInner(removeOne(f, n, relation, Deref(f, relatedRef)[j]),
                          n, relation, relatedRef, j + 1, len)

\* nodes.forEach(...)
RECURSIVE removeOuter(_, _, _, _, _, _)
removeOuter(f, nodesRef, relation, relatedRef, i, len) ==
    IF i > len THEN f
    ELSE IF i > Len(Deref(f, nodesRef))
         THEN removeOuter(f, nodesRef, relation, relatedRef, i + 1, len)
         ELSE removeOuter(removeInner(f, Deref(f, nodesRef)[i], relation, relatedRef,
                                      1, Len(Deref(f, relatedRef))),
                          nodesRef, relation, relatedRef, i + 1, len)

remove(f, nodesRef, relation, relatedRef) ==
    removeOuter(f, nodesRef, relation, relatedRef, 1, Len(Deref(f, nodesRef)))

----------------------------------------------------------------------------
(* graph.js:79-157: the factory and the six operations of a handle *)

\* An argument that is a single bare node rather than an array.
BareArg(n) == [kind |-> "bare", val |-> <<>>, node |-> n, key |-> ""]

\* lines 80-82: a non-array becomes a one-element array, an array is passed
\* through as the same object.
toNodes(x) == IF x.kind = "bare" THEN ValRef(<<x.node>>) ELSE x

\* A variant that tests a === undefined only.
OrElseUndefinedOnly(a, b) == IF a = Undefined THEN b ELSE a

\* a || b on key names: undefined and the empty string are falsy.
OrElse(a, b) == IF a = Undefined \/ a = "" THEN b ELSE a

\* A handle: the array it closed over, and (for reference only, the code
\* keeps no such thing) the key names in effect when it was constructed,
\* whether that call named any, and which call of the run it was.
Handle(ref, pk, ck, named, born) ==
    [kind |-> ref.kind, val |-> ref.val, node |-> ref.node, key |-> ref.key,
     parentsKey |-> pk, childrenKey |-> ck, named |-> named, born |-> born]

Live == {h \in DOMAIN handles : handles[h].kind # "none"}

Call(op, slot, nodes, arg, filter, generations, res) ==
    [op |-> op, slot |-> slot, nodes |-> nodes, arg |-> arg, filter |-> filter,
     generations |-> generations, res |-> res]

NoTrip == [stage |-> "none", slot |-> 0, arg |-> <<>>, nodes |-> <<>>, pre |-> <<>>]

\* After add() has assigned fresh arrays to the fields in `assigned`, a handle
\* that closed over the array formerly in such a field still holds that
\* array, with the content it had (f is the node state before the call).
Detach(hs, f, assigned) ==
    [h \in DOMAIN hs |->
        IF hs[h].kind = "loc" /\ <<hs[h].node, hs[h].key>> \in assigned
        THEN Handle(ValRef(f[hs[h].node][hs[h].key]), hs[h].parentsKey,
                    hs[h].childrenKey, hs[h].named, hs[h].born)
        ELSE hs[h]]

Elems(s) == {s[i] : i \in 1..Len(s)}

\* lines 79-88.  A handle is constructed to be used: the last call of a run
\* is an operation of a handle.
Graph(slot, nodes, parentsKey, childrenKey) ==
    /\ ops + 1 < MaxOps
    /\ lastParentsKey' = OrElse(parentsKey, lastParentsKey)
    /\ lastChildrenKey' = OrElse(childrenKey, lastChildrenKey)
    /\ handles' = [handles EXCEPT ![slot] =
                      Handle(toNodes(nodes), lastParentsKey', lastChildrenKey',
                             parentsKey # Undefined \/ childrenKey # Undefined,
                             ops + 1)]
    /\ call' = Call("Graph", slot, Deref(node, toNodes(nodes)), <<>>, NoFilter,
                    GenUndefined, Returned(<<>>))
    /\ supplied' = IF parentsKey = Undefined /\ childrenKey = Undefined
                   THEN supplied
                   ELSE Append(supplied, <<parentsKey, childrenKey>>)
    /\ roundTrip' = NoTrip
    /\ ops' = ops + 1
    /\ UNCHANGED node

\* lines 97-99
parents(h, filter, generations) ==
    /\ ops < MaxOps
    /\ h \in Live
    /\ call' = Call("parents", h, Deref(node, handles[h]), <<>>, filter, generations,
                    get(node, Deref(node, handles[h]), lastParentsKey, filter, generations))
    /\ roundTrip' = NoTrip
    /\ ops' = ops + 1
    /\ UNCHANGED <<node, lastParentsKey, lastChildrenKey, handles, supplied>>

\* A variant that keeps the filtered list in the first bound node:
\* node[relation] = node[relation].filter(filterFn).
childrenInPlace(h, filter, generations) ==
    /\ ops < MaxOps
    /\ h \in Live
    /\ call' = Call("children", h, Deref(node, handles[h]), <<>>, filter, generations,
                    get(node, Deref(node, handles[h]), lastChildrenKey, filter, generations))
    /\ node' = IF Deref(node, handles[h]) = <<>> THEN node
               ELSE [node EXCEPT ![Deref(node, handles[h])[1]][lastChildrenKey] =
                                     FilterSeq(@, filter)]
    /\ roundTrip' = NoTrip
    /\ ops' = ops + 1
    /\ UNCHANGED <<lastParentsKey, lastChildrenKey, handles, supplied>>

\* lines 109-111
children(h, filter, generations) ==
    /\ ops < MaxOps
    /\ h \in Live
    /\ call' = Call("children", h, Deref(node, handles[h]), <<>>, filter, generations,
                    get(node, Deref(node, handles[h]), lastChildrenKey, filter, generations))
    /\ roundTrip' = NoTrip
    /\ ops' = ops + 1
    /\ UNCHANGED <<node, lastParentsKey, lastChildrenKey, handles, supplied>>

\* The call has thrown a TypeError, at the node `err`.
TypeError(n) == [div |-> FALSE, out |-> <<>>, err |-> n]

\* A variant that extends the lists of the bound nodes first.
addBothOuterFirst(f, nodes, key, related, otherKey) ==
    IF Throws(f, nodes, key)
    THEN add(f, nodes, key, related)
    ELSE add(add(f, nodes, key, related), related, otherKey, nodes)

\* add(nodes, key, add(toNodes(related), otherKey, nodes)): the inner call
\* runs first and returns the array it was given; when it throws, the outer
\* call is never made.
addBoth(f, nodes, key, related, otherKey) ==
    IF Throws(f, related, otherKey)
    THEN add(f, related, otherKey, nodes)
    ELSE add(add(f, related, otherKey, nodes), nodes, key, related)

\* What addBoth returns: the handle's nodes, or the TypeError.
addResult(f, nodes, key, related, otherKey) ==
    IF Throws(f, related, otherKey)
    THEN TypeError(related[FirstLacking(f, related, otherKey)])
    ELSE IF Throws(f, nodes, key)
    THEN TypeError(nodes[FirstLacking(f, nodes, key)])
    ELSE Returned(nodes)

\* The fields addBoth assigns a fresh array to.
Assigned(f, nodes, key, related, otherKey) ==
    {<<x, otherKey>> : x \in Elems(Processed(f, related, otherKey))}
    \cup (IF Throws(f, related, otherKey) THEN {}
          ELSE {<<n, key>> : n \in Elems(Processed(f, nodes, key))})

\* lines 120-122
addParents(h, arg) ==
    LET nodes == Deref(node, handles[h])
        related == Deref(node, toNodes(arg))
    IN  /\ ops < MaxOps
        /\ h \in Live
        /\ node' = addBoth(node, nodes, lastParentsKey, related, lastChildrenKey)
        /\ handles' = Detach(handles, node,
                             Assigned(node, nodes, lastParentsKey, related, lastChildrenKey))
        /\ call' = Call("addParents", h, nodes, related, NoFilter, GenUndefined,
                        addResult(node, nodes, lastParentsKey, related, lastChildrenKey))
        /\ roundTrip' = NoTrip
        /\ ops' = ops + 1
        /\ UNCHANGED <<lastParentsKey, lastChildrenKey, supplied>>

\* lines 131-133
addChildren(h, arg) ==
    LET nodes == Deref(node, handles[h])
        related == Deref(node, toNodes(arg))
    IN  /\ ops < MaxOps
        /\ h \in Live
        /\ node' = addBoth(node, nodes, lastChildrenKey, related, lastParentsKey)
        /\ handles' = Detach(handles, node,
                             Assigned(node, nodes, lastChildrenKey, related, lastParentsKey))
        /\ call' = Call("addChildren", h, nodes, related, NoFilter, GenUndefined,
                        addResult(node, nodes, lastChildrenKey, related, lastParentsKey))
        /\ roundTrip' = IF call'.res.err = ""
                        THEN [stage |-> "added", slot |-> h, arg |-> related,
                              nodes |-> nodes, pre |-> node]
                        ELSE NoTrip
        /\ ops' = ops + 1
        /\ UNCHANGED <<lastParentsKey, lastChildrenKey, supplied>>

\* remove(nodes, key, remove(toNodes(related), otherKey, nodes))
removeBoth(f, nodesRef, key, relatedRef, otherKey) ==
    remove(remove(f, relatedRef, otherKey, nodesRef), nodesRef, key, relatedRef)

\* lines 142-144
removeParents(h, arg) ==
    /\ ops < MaxOps
    /\ h \in Live
    /\ node' = removeBoth(node, handles[h], lastParentsKey, toNodes(arg), lastChildrenKey)
    /\ call' = Call("removeParents", h, Deref(node, handles[h]),
                    Deref(node, toNodes(arg)), NoFilter, GenUndefined,
                    Returned(Deref(node', handles[h])))
    /\ roundTrip' = NoTrip
    /\ ops' = ops + 1
    /\ UNCHANGED <<lastParentsKey, lastChildrenKey, handles, supplied>>

\* lines 153-155
removeChildren(h, arg) ==
    /\ ops < MaxOps
    /\ h \in Live
    /\ node' = removeBoth(node, handles[h], lastChildrenKey, toNodes(arg), lastParentsKey)
    /\ call' = Call("removeChildren", h, Deref(node, handles[h]),
                    Deref(node, toNodes(arg)), NoFilter, GenUndefined,
                    Returned(Deref(node', handles[h])))
    /\ roundTrip' = IF roundTrip.stage = "added" /\ roundTrip.slot = h
                       /\ roundTrip.arg = Deref(node, toNodes(arg))
                    THEN [roundTrip EXCEPT !.stage = "undone"]
                    ELSE NoTrip
    /\ ops' = ops + 1
    /\ UNCHANGED <<lastParentsKey, lastChildrenKey, handles, supplied>>

----------------------------------------------------------------------------
(* The specification: the caller's calls, with arguments from small sets. *)

\* The arrays a caller passes: every array of at most two nodes, so that
\* an array may hold two nodes or the same node twice.
Arrays == {<<>>} \cup {<<a>> : a \in Nodes} \cup {<<a, b>> : a, b \in Nodes}

\* An argument is a bare node or a fresh array.
Args == {BareArg(n) : n \in Nodes} \cup {ValRef(s) : s \in Arrays}

EmptyGraph == [n \in Nodes |-> [k \in KeyNames |-> <<>>]]

Init ==
    /\ node = EmptyGraph
    /\ lastParentsKey = "parents"
    /\ lastChildrenKey = "children"
    /\ handles = <<NoHandle>>
    /\ call = NoCall
    /\ supplied = <<>>
    /\ roundTrip = NoTrip
    /\ ops = 0

\* A single node is passed bare, several nodes or none as an array.
CallArgs == {a \in Args : a.kind = "bare" \/ Len(a.val) # 1}

\* The mutation engine: handles over any array, linking and unlinking any
\* nodes, from nodes that have no relations.
Next ==
    \/ \E h \in DOMAIN handles, arg \in CallArgs : Graph(h, arg, Undefined, Undefined)
    \/ \E h \in DOMAIN handles, arg \in CallArgs : addParents(h, arg)
    \/ \E h \in DOMAIN handles, arg \in CallArgs : addChildren(h, arg)
    \/ \E h \in DOMAIN handles, arg \in CallArgs : removeParents(h, arg)
    \/ \E h \in DOMAIN handles, arg \in CallArgs : removeChildren(h, arg)

Spec == Init /\ [][Next]_vars

----------------------------------------------------------------------------
(* Queries, on the graphs the engine builds. *)

Filters == {NoFilter, ObjFilter(<<<<"id", 1>>>>), FnFilter("idGt1")}

Generations == {GenUndefined} \cup {GenNum(k) : k \in 0..MaxGen}

\* The graph after Graph(A).addChildren(cA), Graph(B).addChildren(cB),
\* Graph(C).addChildren(cC) on nodes without relations.
Built(cA, cB, cC) ==
    addBoth(addBoth(addBoth(EmptyGraph, <<"A">>, "children", cA, "parents"),
                    <<"B">>, "children", cB, "parents"),
            <<"C">>, "children", cC, "parents")

\* A graph of at most MaxEdges relations built that way and a handle
\* constructed over any array of nodes, with one call of the run left.
InitQuery ==
    /\ \E cA \in Arrays, cB \in Arrays, cC \in Arrays :
          /\ Len(cA) + Len(cB) + Len(cC) <= MaxEdges
          /\ node = Built(cA, cB, cC)
    /\ lastParentsKey = "parents"
    /\ lastChildrenKey = "children"
    /\ \E s \in Arrays :
          /\ handles = <<Handle(ValRef(s), "parents", "children", FALSE, MaxOps - 1)>>
          /\ call = Call("Graph", 1, s, <<>>, NoFilter, GenUndefined, Returned(<<>>))
    /\ supplied = <<>>
    /\ roundTrip = NoTrip
    /\ ops = MaxOps - 1

NextQuery ==
    \/ \E h \in DOMAIN handles, filter \in Filters, g \in Generations :
          parents(h, filter, g)
    \/ \E h \in DOMAIN handles, filter \in Filters, g \in Generations :
          children(h, filter, g)

SpecQuery == InitQuery /\ [][NextQuery]_vars

----------------------------------------------------------------------------
(* What the claims speak of. *)

IsQuery == call.op \in {"parents", "children"}

\* The relation key the last query read.
QueryKey == IF call.op = "parents" THEN lastParentsKey ELSE lastChildrenKey

\* The relatives of the nodes in S, one hop along relation.
Relatives(f, relation, S) == UNION {Elems(f[n][relation]) : n \in S}

\* The nodes between 1 and k hops from the nodes in S.
RECURSIVE WithinHops(_, _, _, _)
WithinHops(f, relation, S, k) ==
    IF k = 0 THEN {}
    ELSE Relatives(f, relation, S) \cup WithinHops(f, relation, Relatives(f, relation, S), k - 1)

\* Every node to be reached is reached within as many hops as there are nodes.
AllHops == Cardinality(Nodes)

\* The hops a generations argument allows: g + 1, or any number.
HopsOf(generations) == IF generations.t = "num" THEN generations.v + 1 ELSE AllHops

\* A cycle of the relation can be reached from the nodes of the array s.
CycleReachable(f, relation, s) ==
    \E x \in Elems(s) \cup WithinHops(f, relation, Elems(s), AllHops) :
        x \in WithinHops(f, relation, {x}, AllHops)

\* For each node of the frontier in turn: its direct matches, then the
\* deeper generations' results for its relatives.
RECURSIVE ConcatAll(_, _, _, _, _)
ConcatAll(f, nodes, relation, filter, generations) ==
    IF nodes = <<>> THEN <<>>
    ELSE FilterSeq(f[Head(nodes)][relation], filter)
         \o (IF Recurses(generations)
             THEN ConcatAll(f, f[Head(nodes)][relation], relation, filter,
                            NextGenerations(generations))
             ELSE <<>>)
         \o ConcatAll(f, Tail(nodes), relation, filter, generations)

\* C3: a query over several nodes returns, in input order, the direct matches
\* of each node followed by the deeper results for that node's relatives;
\* no node's results are dropped.
C3_ConcatenatesAllNodes ==
    (IsQuery /\ ~call.res.div) =>
        call.res.out = ConcatAll(node, call.nodes, QueryKey, call.filter, call.generations)

\* The relation is a chain from n: every node met has at most one relative
\* and no node is met twice.
IsChain(f, relation, n) ==
    /\ \A x \in {n} \cup WithinHops(f, relation, {n}, AllHops) : Len(f[x][relation]) <= 1
    /\ ~CycleReachable(f, relation, <<n>>)

\* The first k descendants of n along a chain.
RECURSIVE ChainFrom(_, _, _, _)
ChainFrom(f, relation, n, k) ==
    IF k = 0 \/ f[n][relation] = <<>> THEN <<>>
    ELSE <<f[n][relation][1]>> \o ChainFrom(f, relation, f[n][relation][1], k - 1)

\* C7: a query with generations = g returns only relatives at most g + 1
\* hops from the bound nodes (only direct matches when g = 0); on a chain
\* from a single bound node, with no filter, it returns the first g + 1
\* descendants in order, and all of them when generations is omitted.
C7_DepthBound ==
    (IsQuery /\ ~call.res.div) =>
        /\ Elems(call.res.out) \subseteq
               WithinHops(node, QueryKey, Elems(call.nodes), HopsOf(call.generations))
        /\ \A x \in Elems(call.res.out) : filterFn(call.filter, x)
        /\ (Len(call.nodes) = 1 /\ call.filter = NoFilter
            /\ IsChain(node, QueryKey, call.nodes[1])) =>
               call.res.out = ChainFrom(node, QueryKey, call.nodes[1], HopsOf(call.generations))

\* The chain A -> B -> C queried with generations = 1 has returned [B, C].
C7_Witness ==
    /\ call.op = "children" /\ call.nodes = <<"A">> /\ call.filter = NoFilter
    /\ call.generations = GenNum(1)
    /\ node["A"]["children"] = <<"B">> /\ node["B"]["children"] = <<"C">>
    /\ node["C"]["children"] = <<>>
    /\ call.res = Returned(<<"B", "C">>)

\* C9: a query with a finite generations argument returns on every graph,
\* cyclic or not; with generations omitted it returns exactly when no cycle
\* of the queried relation can be reached from the bound nodes.
C9_Termination ==
    IsQuery =>
        /\ call.generations.t = "num" => ~call.res.div
        /\ call.generations.t = "undefined" =>
               (call.res.div <=> CycleReachable(node, QueryKey, call.nodes))

\* An unbounded query over a cycle that does not pass through the bound node
\* has not returned.
C9_Witness ==
    /\ call.op = "children" /\ call.generations = GenUndefined
    /\ call.nodes = <<"A">>
    /\ "A" \notin WithinHops(node, "children", {"A"}, AllHops)
    /\ CycleReachable(node, "children", <<"A">>)
    /\ call.res.div

\* C10: the filter decides what is emitted, not what is traversed: every
\* relative within the generation bound that satisfies the filter is
\* returned, whatever the nodes on the path to it, and no relative that
\* fails the filter is returned.
C10_FilterOnlyEmission ==
    (IsQuery /\ ~call.res.div) =>
        /\ \A x \in WithinHops(node, QueryKey, Elems(call.nodes), HopsOf(call.generations)) :
               filterFn(call.filter, x) => x \in Elems(call.res.out)
        /\ \A x \in Elems(call.res.out) : filterFn(call.filter, x)

----------------------------------------------------------------------------
(* Filters, on a node whose children have no children. *)

\* {}, one field, two fields of which the node may have both, one or none.
FilterSet ==
    Filters \cup {ObjFilter(<<>>), ObjFilter(<<<<"id", 2>>, <<"kind", 7>>>>),
                  ObjFilter(<<<<"kind", 7>>>>)}

EmptyAll == [n \in AllNodes |-> [k \in KeyNames |-> <<>>]]

\* The graph after Graph(A).addChildren(cs) on nodes without relations, and a
\* handle over A, with one call of the run left.
InitFilter ==
    /\ \E cs \in {<<>>} \cup {<<x>> : x \in AllNodes \ {"A"}}
                     \cup {<<x, y>> : x, y \in AllNodes \ {"A"}} :
          node = addBoth(EmptyAll, <<"A">>, "children", cs, "parents")
    /\ lastParentsKey = "parents"
    /\ lastChildrenKey = "children"
    /\ handles = <<Handle(ValRef(<<"A">>), "parents", "children", FALSE, MaxOps - 1)>>
    /\ call = Call("Graph", 1, <<"A">>, <<>>, NoFilter, GenUndefined, Returned(<<>>))
    /\ supplied = <<>>
    /\ roundTrip = NoTrip
    /\ ops = MaxOps - 1

NextFilter ==
    \E h \in DOMAIN handles, filter \in FilterSet, g \in Generations :
        children(h, filter, g)

SpecFilter == InitFilter /\ [][NextFilter]_vars

\* The node x has every field of the structural filter, with an equal value;
\* or the predicate returns true for it.
Satisfies(filter, x) ==
    IF filter.t = "fn" THEN CallPredicate(filter.fn, x)
    ELSE \A i \in 1..Len(filter.kv) :
             /\ filter.kv[i][1] \in DOMAIN NodeData[x]
             /\ NodeData[x][filter.kv[i][1]] = filter.kv[i][2]

\* The entries of s that satisfy the filter, in the order of s.
RECURSIVE Select(_, _)
Select(s, filter) ==
    IF s = <<>> THEN <<>>
    ELSE (IF Satisfies(filter, Head(s)) THEN <<Head(s)>> ELSE <<>>) \o Select(Tail(s), filter)

\* C11: for a handle over a single node whose children have no children,
\* children(filter) returns exactly the direct children that satisfy the
\* filter, in list order; with the filter {} or no filter that is the full
\* children list.
C11_FilterPrecision ==
    (/\ call.op = "children" /\ Len(call.nodes) = 1
     /\ \A x \in Elems(node[call.nodes[1]][lastChildrenKey]) : node[x][lastChildrenKey] = <<>>)
        => /\ ~call.res.div
           /\ call.res.out = Select(node[call.nodes[1]][lastChildrenKey], call.filter)
           /\ call.filter.kv = <<>> /\ call.filter.t # "fn" =>
                 call.res.out = node[call.nodes[1]][lastChildrenKey]

\* C13: parents(filter, generations) and children(filter, generations) leave
\* every relation list of every node, the node sequence of every handle and
\* the two default key names as they were; what they return is a list of
\* its own.
C13_QueriesAreReadOnly ==
    [][call'.op \in {"parents", "children"} =>
          /\ node' = node
          /\ handles' = handles
          /\ \A h \in Live : Deref(node', handles'[h]) = Deref(node, handles[h])
          /\ lastParentsKey' = lastParentsKey
          /\ lastChildrenKey' = lastChildrenKey]_vars

\* children(function (n) { return n.id > 1; }, 0) on a handle over A has
\* returned a part of A's children list.
C13_Witness ==
    /\ call.op = "children" /\ call.nodes = <<"A">>
    /\ call.filter = FnFilter("idGt1") /\ call.generations = GenNum(0)
    /\ node["A"]["children"] = <<"A", "B">>
    /\ call.res = Returned(<<"B">>)

----------------------------------------------------------------------------
(* resembles(), on filters and candidates of its own. *)

\* A field of a structural filter.
FilterFields == {"id", "kind"} \X {1, 2, 7}

\* The structural filters: {}, one field, or two fields in either order.
FilterPairs ==
    {<<>>} \cup {<<p>> : p \in FilterFields}
           \cup {pq \in FilterFields \X FilterFields : pq[1][1] # pq[2][1]}

\* The value resembles() returns.
Boolean(b) == Returned(IF b THEN <<"true">> ELSE <<"false">>)

\* The arguments of one call resembles(self, obj): any filter, and as
\* candidate the data of any node.
InitResembles ==
    /\ node = EmptyGraph
    /\ lastParentsKey = "parents"
    /\ lastChildrenKey = "children"
    /\ handles = <<NoHandle>>
    /\ \E pairs \in FilterPairs, x \in AllNodes :
          call = Call("arguments", 0, <<>>, <<x>>, ObjFilter(pairs), GenUndefined,
                      Returned(<<>>))
    /\ supplied = <<>>
    /\ roundTrip = NoTrip
    /\ ops = 0

\* The call.
Resembles ==
    /\ call.op = "arguments"
    /\ call' = [call EXCEPT !.op = "resembles",
                            !.res = Boolean(resembles(call.filter.kv, NodeData[call.arg[1]]))]
    /\ UNCHANGED <<node, lastParentsKey, lastChildrenKey, handles, supplied, roundTrip, ops>>

SpecResembles == InitResembles /\ [][Resembles]_vars

\* C16: resembles(filter, candidate) is true exactly when the candidate has
\* every field of the filter with an equal value, whatever else it has; the
\* empty filter matches every candidate.
C16_ResemblesIsExact ==
    call.op = "resembles" =>
        /\ call.res = Boolean(Satisfies(call.filter, call.arg[1]))
        /\ call.filter.kv = <<>> => call.res = Boolean(TRUE)

----------------------------------------------------------------------------
(* Queries whose generations argument is null. *)

\* children(filter, null), children(filter, undefined) and children(filter)
NextNull ==
    \/ \E h \in DOMAIN handles, filter \in Filters, g \in {GenNull, GenUndefined} :
          parents(h, filter, g)
    \/ \E h \in DOMAIN handles, filter \in Filters, g \in {GenNull, GenUndefined} :
          children(h, filter, g)

SpecNull == InitQuery /\ [][NextNull]_vars

\* C12: a query whose generations argument is null returns what the same
\* query returns with the argument undefined or omitted: the matches at
\* every depth.
C12_NullSearchesAllGenerations ==
    (IsQuery /\ call.generations = GenNull) =>
        call.res = get(node, call.nodes, QueryKey, call.filter, GenUndefined)

----------------------------------------------------------------------------
(* The mutation engine. *)

Contains(s, x) == x \in Elems(s)

\* C1: removing a relation that does not exist is a no-op: when the child
\* is not in the bound node's children list, removeChildren([child]) on a
\* handle over that node leaves the lists of both nodes as they were (and
\* likewise removeParents when the parent is absent).
C1_RemoveAbsentIsNoOp ==
    [][\A a \in Nodes, b \in Nodes :
          /\ (/\ call'.op = "removeChildren"
              /\ call'.nodes = <<a>> /\ call'.arg = <<b>>
              /\ ~Contains(node[a][lastChildrenKey], b))
                => (node'[a] = node[a] /\ node'[b] = node[b])
          /\ (/\ call'.op = "removeParents"
              /\ call'.nodes = <<a>> /\ call'.arg = <<b>>
              /\ ~Contains(node[a][lastParentsKey], b))
                => (node'[a] = node[a] /\ node'[b] = node[b])]_vars

\* C2: after any sequence of addParents, addChildren, removeParents and
\* removeChildren calls on nodes that began without relations, b is in a's
\* children list exactly when a is in b's parents list.
C2_Symmetry ==
    \A a \in Nodes, b \in Nodes :
        Contains(node[a][lastChildrenKey], b) <=> Contains(node[b][lastParentsKey], a)

\* The number of entries of the array s that are the node n.
Count(s, n) == Cardinality({i \in 1..Len(s) : s[i] = n})

\* The array s, k times over.
RECURSIVE Repeat(_, _)
Repeat(s, k) == IF k = 0 THEN <<>> ELSE s \o Repeat(s, k - 1)

\* One call linked the bound nodes N to the entries of X: each entry of X
\* had N appended to its list under backKey, each entry of N had X appended
\* to its list under key, and nothing else changed.
Linked(f, g, N, key, X, backKey) ==
    \A n \in Nodes :
        /\ g[n][backKey] = f[n][backKey] \o Repeat(N, Count(X, n))
        /\ g[n][key] = f[n][key] \o Repeat(X, Count(N, n))
        /\ \A k \in KeyNames \ {key, backKey} : g[n][k] = f[n][k]

\* C4: one call addChildren(X) on a handle over N appends the nodes of N, in
\* order, to the end of the parents list of every entry of X (once for each
\* entry), and the entries of X, in order, to the end of the children list
\* of every node of N, keeping all prior entries; addParents does the same
\* with the two relations swapped.
C4_LinkIsSymmetricAndExact ==
    [][/\ call'.op = "addChildren" =>
             Linked(node, node', call'.nodes, lastChildrenKey, call'.arg, lastParentsKey)
       /\ call'.op = "addParents" =>
             Linked(node, node', call'.nodes, lastParentsKey, call'.arg, lastChildrenKey)]_vars

\* addChildren([C, C]) on a handle over [A, B] has extended lists that
\* already had entries.
C4_Witness ==
    /\ call.op = "addChildren"
    /\ call.nodes = <<"A", "B">> /\ call.arg = <<"C", "C">>
    /\ node["A"]["children"] = <<"C", "C", "C">>
    /\ node["C"]["parents"] = <<"A", "B", "A", "B", "A", "B">>

\* No entry of X is a child of a node of N, nor has a node of N as parent.
Unrelated(f, N, X) ==
    \A n \in Elems(N), x \in Elems(X) :
        ~Contains(f[n][lastChildrenKey], x) /\ ~Contains(f[x][lastParentsKey], n)

\* The node state after addChildren(X) and then removeChildren(X) on the
\* handle h, from node state f.
AddThenRemove(f, h, X) ==
    LET N == Deref(f, handles[h])
        g == addBoth(f, N, lastChildrenKey, X, lastParentsKey)
        hs == Detach(handles, f, Assigned(f, N, lastChildrenKey, X, lastParentsKey))
    IN  removeBoth(g, hs[h], lastChildrenKey, ValRef(X), lastParentsKey)

\* C8: when no entry of X is already related to a node of N, addChildren(X)
\* followed by removeChildren(X) on the same handle leaves every list as it
\* was, in content and order, also when X or N holds a node twice: for the
\* two calls made next from any state in which the run has a call left, and
\* for the two calls whenever a run has made them.
C8_RoundTrip ==
    /\ ops < MaxOps =>
          \A h \in Live, X \in Arrays :
              Unrelated(node, Deref(node, handles[h]), X) => AddThenRemove(node, h, X) = node
    /\ (roundTrip.stage = "undone" /\ Unrelated(roundTrip.pre, roundTrip.nodes, roundTrip.arg))
          => node = roundTrip.pre

\* The two calls have been made, with the same node twice in X and two
\* nodes in N.
C8_Witness ==
    /\ roundTrip.stage = "undone"
    /\ Unrelated(roundTrip.pre, roundTrip.nodes, roundTrip.arg)
    /\ Len(roundTrip.arg) = 2 /\ roundTrip.arg[1] = roundTrip.arg[2]
    /\ Len(roundTrip.nodes) = 2
    /\ node = roundTrip.pre

----------------------------------------------------------------------------
(* Removal, with arrays the caller made and with the nodes' own lists. *)

\* A node's relation list itself, as in GRAPH(a.children) or
\* removeChildren(a.children).
LiveRefs == {LocRef(n, k) : n \in Nodes, k \in {"parents", "children"}}

\* A graph of at most MaxEdges relations built by the engine and a handle
\* constructed over a fresh array or over a node's list, with one call of
\* the run left.
InitLive ==
    /\ \E cA \in Arrays, cB \in Arrays, cC \in Arrays :
          /\ Len(cA) + Len(cB) + Len(cC) <= MaxEdges
          /\ node = Built(cA, cB, cC)
    /\ lastParentsKey = "parents"
    /\ lastChildrenKey = "children"
    /\ \E r \in {ValRef(s) : s \in Arrays} \cup LiveRefs :
          /\ handles = <<Handle(r, "parents", "children", FALSE, MaxOps - 1)>>
          /\ call = Call("Graph", 1, Deref(node, r), <<>>, NoFilter, GenUndefined,
                         Returned(<<>>))
    /\ supplied = <<>>
    /\ roundTrip = NoTrip
    /\ ops = MaxOps - 1

NextLive ==
    \/ \E h \in DOMAIN handles, arg \in Args \cup LiveRefs : removeParents(h, arg)
    \/ \E h \in DOMAIN handles, arg \in Args \cup LiveRefs : removeChildren(h, arg)

SpecLive == InitLive /\ [][NextLive]_vars

\* The array s without its first entry equal to x.
RECURSIVE RemoveFirst(_, _)
RemoveFirst(s, x) ==
    IF s = <<>> THEN <<>>
    ELSE IF Head(s) = x THEN Tail(s)
    ELSE <<Head(s)>> \o RemoveFirst(Tail(s), x)

\* One such removal for each entry of `attempts`, in order.
RECURSIVE RemoveEach(_, _)
RemoveEach(s, attempts) ==
    IF attempts = <<>> THEN s
    ELSE RemoveEach(RemoveFirst(s, Head(attempts)), Tail(attempts))

\* Every removal of `attempts` finds its entry in the list.
AllPresent(s, attempts) ==
    \A x \in Elems(attempts) : Count(s, x) >= Count(attempts, x)

\* One call unlinked the entries of X from the nodes of N under key: in the
\* list of each node of N, for which every removal finds its entry, the
\* first occurrence of each entry of X is gone, once for each time X lists
\* it, and the rest is as it was.
Unlinked(f, g, N, key, X) ==
    \A n \in Elems(N) :
        AllPresent(f[n][key], Repeat(X, Count(N, n))) =>
            g[n][key] = RemoveEach(f[n][key], Repeat(X, Count(N, n)))

\* C14: for every node and entry of a remove call, when the entry is in the
\* node's list exactly its first occurrence is removed and the other
\* elements keep their value and order; an entry listed k times is removed
\* k times.
C14_RemovesFirstOccurrence ==
    [][/\ call'.op = "removeChildren" =>
             /\ Unlinked(node, node', call'.nodes, lastChildrenKey, call'.arg)
             /\ Unlinked(node, node', call'.arg, lastParentsKey, call'.nodes)
       /\ call'.op = "removeParents" =>
             /\ Unlinked(node, node', call'.nodes, lastParentsKey, call'.arg)
             /\ Unlinked(node, node', call'.arg, lastChildrenKey, call'.nodes)]_vars

\* Each node of N is related to each entry of X exactly once, in both
\* directions, and neither array lists a node twice.
SimplyLinked(f, N, key, X, backKey) ==
    /\ \A n \in Elems(N) : Count(N, n) = 1
    /\ \A x \in Elems(X) : Count(X, x) = 1
    /\ \A n \in Elems(N), x \in Elems(X) :
          Count(f[n][key], x) = 1 /\ Count(f[x][backKey], n) = 1

\* No node of N is related to an entry of X, in either direction.
Severed(g, N, key, X, backKey) ==
    \A n \in Elems(N), x \in Elems(X) :
        ~Contains(g[n][key], x) /\ ~Contains(g[x][backKey], n)

\* C17: removeParents(P) / removeChildren(C) unlinks, in both directions,
\* every node that was in the handle's node sequence when the call started,
\* also when the handle is over a node's own relation list.
C17_UnlinksEveryBoundNode ==
    [][/\ (/\ call'.op = "removeParents"
           /\ SimplyLinked(node, call'.nodes, lastParentsKey, call'.arg, lastChildrenKey))
             => Severed(node', call'.nodes, lastParentsKey, call'.arg, lastChildrenKey)
       /\ (/\ call'.op = "removeChildren"
           /\ SimplyLinked(node, call'.nodes, lastChildrenKey, call'.arg, lastParentsKey))
             => Severed(node', call'.nodes, lastChildrenKey, call'.arg, lastParentsKey)]_vars

----------------------------------------------------------------------------
(* Linking nodes that lack a relation field. *)

\* The fields that may be missing.
LackFields == {"B", "C"} \X {"parents", "children"}

WithoutFields(f, lack) ==
    [n \in Nodes |-> [k \in KeyNames |-> IF <<n, k>> \in lack THEN NoField ELSE f[n][k]]]

\* Nodes without relations, or with A its own child, some of them without
\* a parents or a children field, and a handle over any array, with one
\* call of the run left.
InitFault ==
    /\ \E lack \in SUBSET LackFields, f \in {EmptyGraph, Built(<<"A">>, <<>>, <<>>)} :
          node = WithoutFields(f, lack)
    /\ lastParentsKey = "parents"
    /\ lastChildrenKey = "children"
    /\ \E s \in Arrays :
          /\ handles = <<Handle(ValRef(s), "parents", "children", FALSE, MaxOps - 1)>>
          /\ call = Call("Graph", 1, s, <<>>, NoFilter, GenUndefined, Returned(<<>>))
    /\ supplied = <<>>
    /\ roundTrip = NoTrip
    /\ ops = MaxOps - 1

NextFault ==
    \/ \E h \in DOMAIN handles, arg \in Args : addParents(h, arg)
    \/ \E h \in DOMAIN handles, arg \in Args : addChildren(h, arg)

SpecFault == InitFault /\ [][NextFault]_vars

\* The lists one call is to extend, in the order the claim gives: for each
\* entry of X its list under backKey, by N; then for each node of N its list
\* under key, by X.
Steps(N, key, X, backKey) ==
    [i \in 1..Len(X) |-> <<X[i], backKey, N>>] \o [i \in 1..Len(N) |-> <<N[i], key, X>>]

\* The lists extended one after the other until a field is missing: the
\* node state reached, and the node at which the call stopped ("" if none).
RECURSIVE Extend(_, _)
Extend(f, steps) ==
    IF steps = <<>> THEN [f |-> f, at |-> ""]
    ELSE IF f[Head(steps)[1]][Head(steps)[2]] = NoField
         THEN [f |-> f, at |-> Head(steps)[1]]
         ELSE Extend([f EXCEPT ![Head(steps)[1]][Head(steps)[2]] = @ \o Head(steps)[3]],
                     Tail(steps))

\* C15: when addParents / addChildren meets a node without the field it
\* appends to, the call ends in a TypeError at that node; the lists extended
\* before it stay extended and the lists that were to follow are unchanged,
\* the related nodes' lists coming before the bound nodes' lists.
C15_NoRollback ==
    [][/\ call'.op = "addChildren" =>
             /\ node' = Extend(node, Steps(call'.nodes, lastChildrenKey,
                                           call'.arg, lastParentsKey)).f
             /\ call'.res.err = Extend(node, Steps(call'.nodes, lastChildrenKey,
                                                   call'.arg, lastParentsKey)).at
       /\ call'.op = "addParents" =>
             /\ node' = Extend(node, Steps(call'.nodes, lastParentsKey,
                                           call'.arg, lastChildrenKey)).f
             /\ call'.res.err = Extend(node, Steps(call'.nodes, lastParentsKey,
                                                   call'.arg, lastChildrenKey)).at]_vars

\* addChildren([B, C]) on a handle over [A, A] has thrown at C, which has no
\* parents field: B's parents list is extended, A's children list is not.
C15_Witness ==
    /\ call.op = "addChildren" /\ call.res = TypeError("C")
    /\ call.nodes = <<"A", "A">> /\ call.arg = <<"B", "C">>
    /\ node["B"]["parents"] = <<"A", "A">>
    /\ node["C"]["parents"] = NoField
    /\ node["A"]["children"] = <<"A">>

----------------------------------------------------------------------------
(* Key names. *)

\* The key names a caller passes to Graph(): none, new names, the empty
\* string, the default names again, or one name only.
KeyPairs ==
    {<<Undefined, Undefined>>, <<"up", "down">>, <<"", "">>,
     <<"parents", "children">>, <<"up", Undefined>>, <<Undefined, "down">>}

InitKeys ==
    /\ node = EmptyGraph
    /\ lastParentsKey = "parents"
    /\ lastChildrenKey = "children"
    /\ handles = <<NoHandle, NoHandle>>
    /\ call = NoCall
    /\ supplied = <<>>
    /\ roundTrip = NoTrip
    /\ ops = 0

\* Two handles, constructed with or without key names, each used for any of
\* the six operations.
NextKeys ==
    \/ \E h \in DOMAIN handles, n \in {"A", "B"}, kp \in KeyPairs :
          Graph(h, BareArg(n), kp[1], kp[2])
    \/ \E h \in DOMAIN handles : addParents(h, BareArg("B"))
    \/ \E h \in DOMAIN handles : addChildren(h, BareArg("B"))
    \/ \E h \in DOMAIN handles : removeParents(h, BareArg("B"))
    \/ \E h \in DOMAIN handles : removeChildren(h, BareArg("B"))
    \/ \E h \in DOMAIN handles : parents(h, NoFilter, GenNum(0))
    \/ \E h \in DOMAIN handles : children(h, NoFilter, GenNum(0))

SpecKeys == InitKeys /\ [][NextKeys]_vars

\* What the last call did is what the operation does under the key names pk
\* and ck.
ActsOn(pk, ck) ==
    /\ call'.op = "addChildren" => Linked(node, node', call'.nodes, ck, call'.arg, pk)
    /\ call'.op = "addParents" => Linked(node, node', call'.nodes, pk, call'.arg, ck)
    /\ call'.op = "removeChildren" =>
          node' = removeBoth(node, ValRef(call'.nodes), ck, ValRef(call'.arg), pk)
    /\ call'.op = "removeParents" =>
          node' = removeBoth(node, ValRef(call'.nodes), pk, ValRef(call'.arg), ck)
    /\ call'.op = "children" =>
          call'.res = get(node, call'.nodes, ck, call'.filter, call'.generations)
    /\ call'.op = "parents" =>
          call'.res = get(node, call'.nodes, pk, call'.filter, call'.generations)

\* C5: every handle operates on the key names that were in effect when it
\* was constructed, also after a later Graph() call has named other keys.
C5_HandleKeepsItsKeys ==
    [][call'.op # "Graph" =>
          ActsOn(handles[call'.slot].parentsKey, handles[call'.slot].childrenKey)]_vars

\* The i-th component of the last pair of s in which it was supplied, or
\* dflt; an empty string counts as supplied when `empties` is set.
RECURSIVE MostRecent(_, _, _, _)
MostRecent(s, i, dflt, empties) ==
    IF s = <<>> THEN dflt
    ELSE IF s[Len(s)][i] = Undefined \/ (~empties /\ s[Len(s)][i] = "")
         THEN MostRecent(SubSeq(s, 1, Len(s) - 1), i, dflt, empties)
         ELSE s[Len(s)][i]

====
